---- MODULE Spec2Model ----
(***************************************************************************)
(* Red-black tree of ands/ds/RBT.py: insert, _fix_insertion, delete and    *)
(* the deletion fix-up cases, over nodes linked by parent/left/right.      *)
(*                                                                         *)
(* Nodes are the slots 1..MaxNodes+1 of an arena, Nil (0) is Python's      *)
(* None.  A tree value t is a record of the fields of the RBT object and   *)
(* of its nodes; every operation of the code is an operator from tree      *)
(* values to tree values, its statements composed in program order.  An    *)
(* exception raised by the code is recorded in t.err and stops the         *)
(* operation where it was raised, keeping the mutations made so far.       *)
(*                                                                         *)
(* Beside the fields of the program a tree value carries a record of the   *)
(* run: the branches taken (log), what the code could read around the node *)
(* on entering them (obs), and the fields a delete changed (frame).        *)
(*                                                                         *)
(* Python object identity carries no order, so after each completed        *)
(* operation the nodes are renamed: the nodes of the tree take the names   *)
(* 1..m in in-order, the node the operation returned takes m+1.            *)
(***************************************************************************)
EXTENDS Integers, Sequences, FiniteSets

\* Bounds of the model.
MaxNodes == 10
MaxKey == 2
MaxArgNodes == 6

Nil == 0
Arena == 1..(MaxNodes + 1)
Ptr == 0..(MaxNodes + 1)
Keys == 1..MaxKey

RED == "RED"
BLACK == "BLACK"

VARIABLES root, n, key, color, left, right, parent, ret, err, last, ls

vars == <<root, n, key, color, left, right, parent, ret, err, last, ls>>

\* The RBT object and its nodes as one value.
Tree ==
  [root |-> root, n |-> n, key |-> key, color |-> color, left |-> left,
   right |-> right, parent |-> parent, ret |-> ret, err |-> err, log |-> <<>>,
   obs |-> <<>>, frame |-> [call |-> {}, removal |-> {}]]

----------------------------------------------------------------------------
\* Statements.

Raise(t, e) == IF t.err = "ok" THEN [t EXCEPT !.err = e] ELSE t

SetColor(t, x, c) ==
  IF t.err # "ok" THEN t
  ELSE IF x = Nil THEN Raise(t, "AttributeError")
  ELSE [t EXCEPT !.color[x] = c]

SetLeft(t, x, y) ==
  IF t.err # "ok" THEN t
  ELSE IF x = Nil THEN Raise(t, "AttributeError")
  ELSE [t EXCEPT !.left[x] = y]

SetRight(t, x, y) ==
  IF t.err # "ok" THEN t
  ELSE IF x = Nil THEN Raise(t, "AttributeError")
  ELSE [t EXCEPT !.right[x] = y]

SetParent(t, x, y) ==
  IF t.err # "ok" THEN t
  ELSE IF x = Nil THEN Raise(t, "AttributeError")
  ELSE [t EXCEPT !.parent[x] = y]

SetRoot(t, x) == IF t.err # "ok" THEN t ELSE [t EXCEPT !.root = x]

\* The branches an operation takes, in order (a record of the run, not a field
\* of the program).
Log(t, s) == IF t.err # "ok" THEN t ELSE [t EXCEPT !.log = Append(@, s)]

----------------------------------------------------------------------------
\* The binary search tree layer (ands/ds/BST.py, ands/ds/BSTNode.py).

is_left_child(t, x) == t.parent[x] # Nil /\ t.left[t.parent[x]] = x

is_right_child(t, x) == t.parent[x] # Nil /\ t.right[t.parent[x]] = x

sibling(t, x) ==
  IF t.parent[x] = Nil THEN Nil
  ELSE IF is_left_child(t, x) THEN t.right[t.parent[x]]
  ELSE t.left[t.parent[x]]

grandparent(t, x) == IF t.parent[x] = Nil THEN Nil ELSE t.parent[t.parent[x]]

uncle(t, x) == IF t.parent[x] = Nil THEN Nil ELSE sibling(t, t.parent[x])

\* x.right becomes the parent of x.
left_rotate(t, x) ==
  IF t.err # "ok" THEN t
  ELSE IF x = Nil \/ t.right[x] = Nil THEN Raise(t, "AttributeError")
  ELSE
    LET c == t.right[x]
        p == t.parent[x]
        b == t.left[c]
    IN [t EXCEPT
          !.right = [@ EXCEPT ![x] = b,
                              ![p] = IF p # Nil /\ t.left[p] # x THEN c ELSE @],
          !.left = [@ EXCEPT ![c] = x,
                             ![p] = IF p # Nil /\ t.left[p] = x THEN c ELSE @],
          !.parent = [y \in Ptr |->
                        IF y = x THEN c
                        ELSE IF y = c THEN p
                        ELSE IF y = b /\ b # Nil THEN x
                        ELSE t.parent[y]],
          !.root = IF p = Nil THEN c ELSE @]

\* x.left becomes the parent of x.
right_rotate(t, x) ==
  IF t.err # "ok" THEN t
  ELSE IF x = Nil \/ t.left[x] = Nil THEN Raise(t, "AttributeError")
  ELSE
    LET c == t.left[x]
        p == t.parent[x]
        b == t.right[c]
    IN [t EXCEPT
          !.left = [@ EXCEPT ![x] = b,
                             ![p] = IF p # Nil /\ t.left[p] = x THEN c ELSE @],
          !.right = [@ EXCEPT ![c] = x,
                              ![p] = IF p # Nil /\ t.left[p] # x THEN c ELSE @],
          !.parent = [y \in Ptr |->
                        IF y = x THEN c
                        ELSE IF y = c THEN p
                        ELSE IF y = b /\ b # Nil THEN x
                        ELSE t.parent[y]],
          !.root = IF p = Nil THEN c ELSE @]

\* Recursion and loop budget: more than any walk of a tree of the arena needs.
Fuel == 2 * MaxNodes + 6

\* BST.search: the first node with the key on the descent from the root.
RECURSIVE search_from(_, _, _, _)
search_from(t, k, c, fuel) ==
  IF c = Nil \/ fuel = 0 THEN Nil
  ELSE IF k = t.key[c] THEN c
  ELSE IF k < t.key[c] THEN search_from(t, k, t.left[c], fuel - 1)
  ELSE search_from(t, k, t.right[c], fuel - 1)

search(t, k) == search_from(t, k, t.root, Fuel)

\* The leftmost node of the subtree of x.
RECURSIVE minimum(_, _, _)
minimum(t, x, fuel) ==
  IF fuel = 0 \/ t.left[x] = Nil THEN x ELSE minimum(t, t.left[x], fuel - 1)

\* BST.successor, used by delete only for a node with a right child.
successor(t, x) == minimum(t, t.right[x], Fuel)

\* The colour of x as the code reads it; "none" when x is None.
hue(t, x) == IF x = Nil THEN "none" ELSE t.color[x]

\* The child of the sibling of v on the side of v, and the one on the other
\* side.
near_child(t, v) ==
  IF sibling(t, v) = Nil THEN Nil
  ELSE IF is_left_child(t, v) THEN t.left[sibling(t, v)]
  ELSE t.right[sibling(t, v)]

far_child(t, v) ==
  IF sibling(t, v) = Nil THEN Nil
  ELSE IF is_left_child(t, v) THEN t.right[sibling(t, v)]
  ELSE t.left[sibling(t, v)]

\* What the code can read around v at the place `at`.
look(t, at, v) ==
  [at |-> at, color |-> hue(t, v), isroot |-> (v = t.root),
   lc |-> hue(t, t.left[v]), rc |-> hue(t, t.right[v]),
   parent |-> hue(t, t.parent[v]), grandparent |-> hue(t, grandparent(t, v)),
   sibling |-> hue(t, sibling(t, v)), uncle |-> hue(t, uncle(t, v)),
   near |-> hue(t, near_child(t, v)), far |-> hue(t, far_child(t, v)),
   isleft |-> is_left_child(t, v), isright |-> is_right_child(t, v),
   pleft |-> is_left_child(t, t.parent[v]),
   pright |-> is_right_child(t, t.parent[v])]

\* The surroundings of v on entering a branch (a record of the run, not a
\* field of the program).
See(t, at, v) ==
  IF t.err # "ok" THEN t ELSE [t EXCEPT !.obs = Append(@, look(t, at, v))]

----------------------------------------------------------------------------
\* RBT.insert and RBT._fix_insertion.

\* As fix_red_uncle, the grandparent left as it is.
fix_red_uncle_keeps_grandparent(t, u) ==
  SetColor(SetColor(t, t.parent[u], BLACK), uncle(t, u), BLACK)

\* Uncle RED: recolour and continue at the grandparent (lines 187-191).
fix_red_uncle(t, u) ==
  LET t1 == SetColor(t, t.parent[u], BLACK)
      t2 == SetColor(t1, uncle(t1, u), BLACK)
  IN SetColor(t2, grandparent(t2, u), RED)

\* As fix_left_left, the former grandparent left BLACK.
fix_left_left_keeps_grandparent(t, u) ==
  LET t1 == right_rotate(t, grandparent(t, u))
  IN SetColor(t1, t1.parent[u], BLACK)

\* As fix_left_left, nothing recoloured.
fix_left_left_no_recolor(t, u) == right_rotate(t, grandparent(t, u))

\* u a left child of a left child (lines 218-224).
fix_left_left(t, u) ==
  LET t1 == right_rotate(t, grandparent(t, u))
      t2 == SetColor(t1, t1.parent[u], BLACK)
  IN SetColor(t2, t2.right[t2.parent[u]], RED)

\* As fix_right_right, nothing recoloured.
fix_right_right_no_recolor(t, u) == left_rotate(t, grandparent(t, u))

\* As fix_right_right, recolouring the parent and the grandparent in place of
\* the rotation.
fix_right_right_no_rotation(t, u) ==
  SetColor(SetColor(t, t.parent[u], BLACK), grandparent(t, u), RED)

\* u a right child of a right child (lines 227-230).
fix_right_right(t, u) ==
  LET t1 == left_rotate(t, grandparent(t, u))
      t2 == SetColor(t1, t1.parent[u], BLACK)
  IN SetColor(t2, t2.left[t2.parent[u]], RED)

\* As fix_root, the colour left RED.
fix_root_skip(t, u) == t

\* u is the root (lines 181-182).
fix_root(t, u) == SetColor(t, u, BLACK)

RECURSIVE _fix_insertion(_, _, _)
_fix_insertion(t, u, fuel) ==
  IF t.err # "ok" THEN t
  ELSE IF fuel = 0 THEN Raise(t, "RecursionError")
  ELSE IF u = Nil THEN Raise(t, "AttributeError")
  ELSE IF t.parent[u] = Nil THEN fix_root(Log(t, "fix_root"), u)
  ELSE IF t.color[t.parent[u]] = BLACK THEN Log(t, "fix_black_parent")
  ELSE IF uncle(t, u) # Nil /\ t.color[uncle(t, u)] = RED
    THEN _fix_insertion(fix_red_uncle(See(Log(t, "fix_red_uncle"), "fix_red_uncle", u), u),
                       grandparent(t, u), fuel - 1)
  ELSE IF is_left_child(t, t.parent[u]) /\ is_right_child(t, u)
    THEN LET t1 == left_rotate(See(Log(t, "fix_left_right"), "fix_left_right", u),
                               t.parent[u])
         IN _fix_insertion(t1, t1.left[u], fuel - 1)
  ELSE IF is_right_child(t, t.parent[u]) /\ is_left_child(t, u)
    THEN LET t1 == right_rotate(See(Log(t, "fix_right_left"), "fix_right_left", u),
                                t.parent[u])
         IN _fix_insertion(t1, t1.right[u], fuel - 1)
  ELSE IF is_left_child(t, t.parent[u]) /\ is_left_child(t, u)
    THEN fix_left_left(See(Log(t, "fix_left_left"), "fix_left_left", u), u)
  ELSE IF is_right_child(t, t.parent[u]) /\ is_right_child(t, u)
    THEN fix_right_right(See(Log(t, "fix_right_right"), "fix_right_right", u), u)
  ELSE Raise(See(t, "fix_no_shape", u), "AssertionError")

\* The while loop of insert: the node under which u is linked (lines 154-162).
RECURSIVE insertion_parent(_, _, _, _, _)
insertion_parent(t, u, c, p, fuel) ==
  IF c = Nil \/ fuel = 0 THEN p
  ELSE IF t.key[u] < t.key[c]
    THEN insertion_parent(t, u, t.left[c], c, fuel - 1)
  ELSE insertion_parent(t, u, t.right[c], c, fuel - 1)

\* As insert_link, the two sides exchanged.
insert_link_swapped(t, u, p) ==
  LET t1 == SetParent(t, u, p)
  IN IF p = Nil THEN SetRoot(t1, u)
     ELSE IF t1.key[p] > t1.key[u] THEN SetRight(t1, p, u)
     ELSE SetLeft(t1, p, u)

\* Linking u under p (lines 164-173).
insert_link(t, u, p) ==
  LET t1 == SetParent(t, u, p)
  IN IF p = Nil THEN SetRoot(t1, u)
     ELSE IF t1.key[p] > t1.key[u] THEN SetLeft(t1, p, u)
     ELSE SetRight(t1, p, u)

\* As insert_count, the node keeping the colour it comes with.
insert_count_keeps_color(t, u) ==
  IF t.err # "ok" THEN t ELSE [t EXCEPT !.n = @ + 1]

\* As insert_count, the node coloured BLACK.
insert_count_black(t, u) ==
  LET t1 == SetColor(t, u, BLACK)
  IN IF t1.err # "ok" THEN t1 ELSE [t1 EXCEPT !.n = @ + 1]

\* As insert_count, the count left as it is.
insert_count_forgets(t, u) == SetColor(t, u, RED)

\* Colouring and counting the linked node (lines 175-176).
insert_count(t, u) ==
  LET t1 == SetColor(t, u, RED)
  IN IF t1.err # "ok" THEN t1 ELSE [t1 EXCEPT !.n = @ + 1]

\* As insert, the links of u not looked at.
insert_unchecked_links(t, u) ==
  IF u = Nil THEN Raise(t, "ValueError")
  ELSE
    LET p == insertion_parent(t, u, t.root, Nil, Fuel)
        t1 == insert_link(t, u, p)
        t2 == insert_count(t1, u)
    IN _fix_insertion(t2, u, Fuel)

\* insert of a node u (lines 145-177).
insert(t, u) ==
  IF u = Nil THEN Raise(t, "ValueError")
  ELSE IF t.left[u] # Nil \/ t.right[u] # Nil \/ t.parent[u] # Nil
    THEN Raise(t, "ValueError")
  ELSE
    LET p == insertion_parent(t, u, t.root, Nil, Fuel)
        t1 == insert_link(t, u, p)
        t2 == insert_count(t1, u)
    IN _fix_insertion(t2, u, Fuel)

----------------------------------------------------------------------------
\* RBT.delete.

\* BST._switch: u and s exchange their places in the tree; each keeps its key
\* and its colour.
_switch(t, u, s) ==
  LET F(x) == IF x = u THEN s ELSE IF x = s THEN u ELSE x
  IN IF t.err # "ok" THEN t
     ELSE [t EXCEPT !.left = [y \in Ptr |-> F(t.left[F(y)])],
                    !.right = [y \in Ptr |-> F(t.right[F(y)])],
                    !.parent = [y \in Ptr |-> F(t.parent[F(y)])],
                    !.root = F(t.root)]

\* u.color, s.color = s.color, u.color (line 361).
swap_colors(t, u, s) ==
  IF t.err # "ok" THEN t
  ELSE [t EXCEPT !.color = [@ EXCEPT ![u] = t.color[s], ![s] = t.color[u]]]

\* As delete_switch, each node keeping the colour of its old place.
delete_switch_keeps_colors(t, u) ==
  IF t.left[u] # Nil /\ t.right[u] # Nil
    THEN _switch(Log(t, "switch"), u, successor(t, u))
  ELSE t

\* A node with two children changes places with its successor (lines 358-361).
delete_switch(t, u) ==
  IF t.left[u] # Nil /\ t.right[u] # Nil
    THEN LET s == successor(t, u)
         IN swap_colors(_switch(Log(t, "switch"), u, s), u, s)
  ELSE t

\* Both children of the sibling s are BLACK or absent.
black_children(t, s) ==
  /\ (t.left[s] = Nil \/ t.color[t.left[s]] = BLACK)
  /\ (t.right[s] = Nil \/ t.color[t.right[s]] = BLACK)

\* delete_case6 (lines 331-344).
delete_case6(t0, v) ==
  LET entered(t) ==
        LET s == sibling(t, v)
            p == t.parent[v]
        IN IF t.err # "ok" THEN t
           ELSE IF s = Nil THEN Raise(t, "AssertionError")
           ELSE
             LET t1 == swap_colors(t, s, p)
             IN IF is_left_child(t1, v)
                  THEN IF t1.right[s] = Nil THEN Raise(t1, "AssertionError")
                       ELSE left_rotate(SetColor(t1, t1.right[s], BLACK), p)
                ELSE IF t1.left[s] = Nil THEN Raise(t1, "AssertionError")
                     ELSE right_rotate(SetColor(t1, t1.left[s], BLACK), p)
  IN entered(See(Log(t0, "case6"), "case6", v))

\* As delete_case5_rotate, the rotation made without the recolouring.
delete_case5_rotate_keeps_colors(t0, v) ==
  LET t == Log(t0, "case5")
      s == sibling(t, v)
  IN IF t.err # "ok" \/ s = Nil \/ t.color[s] # BLACK THEN t
     ELSE IF is_left_child(t, v) /\ hue(t, t.right[s]) # RED
               /\ hue(t, t.left[s]) = RED
       THEN right_rotate(t, s)
     ELSE IF is_right_child(t, v) /\ hue(t, t.left[s]) # RED
               /\ hue(t, t.right[s]) = RED
       THEN left_rotate(t, s)
     ELSE t

\* The recolouring and rotation of delete_case5 (lines 305-327).
delete_case5_rotate(t0, v) ==
  LET entered(t) ==
        LET s == sibling(t, v)
            nearL == is_left_child(t, v)
                       /\ (t.right[s] = Nil \/ t.color[t.right[s]] = BLACK)
            nearR == is_right_child(t, v)
                       /\ (t.left[s] = Nil \/ t.color[t.left[s]] = BLACK)
        IN IF t.err # "ok" THEN t
           ELSE IF s = Nil THEN Raise(t, "AssertionError")
           ELSE IF t.color[s] # BLACK THEN t
           ELSE IF nearL /\ t.left[s] = Nil THEN Raise(t, "AttributeError")
           ELSE IF nearL /\ t.color[t.left[s]] = RED
             THEN right_rotate(
                    SetColor(SetColor(Log(t, "case5_left"), s, RED), t.left[s], BLACK),
                    s)
           ELSE IF nearR /\ t.right[s] = Nil THEN Raise(t, "AttributeError")
           ELSE IF nearR /\ t.color[t.right[s]] = RED
             THEN left_rotate(
                    SetColor(SetColor(Log(t, "case5_right"), s, RED), t.right[s], BLACK),
                    s)
           ELSE t
  IN entered(See(Log(t0, "case5"), "case5", v))

\* delete_case5 (lines 305-329).
delete_case5(t, v) == delete_case6(delete_case5_rotate(t, v), v)

\* As delete_case4, going on to delete_case5 whatever the colours.
delete_case4_falls_through(t0, v) == delete_case5(Log(t0, "case4"), v)

\* delete_case4 (lines 293-303).
delete_case4(t0, v) ==
  LET entered(t) ==
        LET s == sibling(t, v)
            p == t.parent[v]
        IN IF t.err # "ok" THEN t
           ELSE IF t.color[p] = RED /\ s = Nil THEN Raise(t, "AttributeError")
           ELSE IF t.color[p] = RED /\ t.color[s] = BLACK /\ black_children(t, s)
             THEN SetColor(SetColor(Log(t, "case4_recolor"), s, RED), p, BLACK)
           ELSE delete_case5(t, v)
  IN entered(See(Log(t0, "case4"), "case4", v))

\* As delete_case2_rotate, the rotation made away from the side of v and the
\* assertions left out.
delete_case2_rotate_other_way(t0, v) ==
  LET entered(t) ==
        LET s == sibling(t, v)
            p == t.parent[v]
        IN IF t.err # "ok" \/ hue(t, s) # RED THEN t
           ELSE
             LET t1 == SetColor(SetColor(Log(t, "case2_rotate"), s, BLACK), p, RED)
             IN See(IF is_left_child(t1, v) THEN right_rotate(t1, p)
                    ELSE left_rotate(t1, p), "case2_rotated", v)
  IN entered(See(Log(t0, "case2"), "case2", v))

\* The recolouring and rotation of delete_case2 (lines 265-277).
delete_case2_rotate(t0, v) ==
  LET rotated(t2) ==
        IF t2.err # "ok" THEN t2
        ELSE IF sibling(t2, v) = Nil THEN Raise(t2, "AttributeError")
        ELSE IF t2.color[sibling(t2, v)] # BLACK THEN Raise(t2, "AssertionError")
        ELSE t2
      entered(t) ==
        LET s == sibling(t, v)
            p == t.parent[v]
        IN IF t.err # "ok" THEN t
           ELSE IF s = Nil THEN Raise(t, "AttributeError")
           ELSE IF t.color[s] # RED THEN t
           ELSE IF t.color[p] # BLACK THEN Raise(t, "AssertionError")
           ELSE
             LET t1 == SetColor(SetColor(Log(t, "case2_rotate"), s, BLACK), p, RED)
             IN rotated(See(IF is_left_child(t1, v) THEN left_rotate(t1, p)
                            ELSE right_rotate(t1, p), "case2_rotated", v))
  IN entered(See(Log(t0, "case2"), "case2", v))

RECURSIVE delete_case1(_, _, _)

\* As delete_case1, case 3 starting over at v with nothing recoloured.
delete_case1_stays(t0, v, fuel) ==
  LET t == Log(t0, "case1")
  IN IF t.err # "ok" THEN t
     ELSE IF fuel = 0 THEN Raise(t, "RecursionError")
     ELSE IF t.parent[v] = Nil THEN t
     ELSE
       LET case3(t2) ==
             LET s == sibling(t2, v)
                 p == t2.parent[v]
             IN IF t2.err # "ok" THEN t2
                ELSE IF t2.color[p] = BLACK /\ s = Nil THEN Raise(t2, "AttributeError")
                ELSE IF t2.color[p] = BLACK /\ t2.color[s] = BLACK
                          /\ black_children(t2, s)
                  THEN delete_case1(Log(t2, "case3_recolor"), v, fuel - 1)
                ELSE delete_case4(t2, v)
       IN case3(See(Log(delete_case2_rotate(t, v), "case3"), "case3", v))

\* delete_case1, delete_case2 and delete_case3 (lines 258-291).
delete_case1(t0, v, fuel) ==
  LET t == Log(t0, "case1")
  IN IF t.err # "ok" THEN t
     ELSE IF fuel = 0 THEN Raise(t, "RecursionError")
     ELSE IF t.parent[v] = Nil THEN t
     ELSE
       LET case3(t2) ==
             LET s == sibling(t2, v)
                 p == t2.parent[v]
             IN IF t2.err # "ok" THEN t2
                ELSE IF t2.color[p] = BLACK /\ s = Nil THEN Raise(t2, "AttributeError")
                ELSE IF t2.color[p] = BLACK /\ t2.color[s] = BLACK
                          /\ black_children(t2, s)
                  THEN delete_case1(SetColor(Log(t2, "case3_recolor"), s, RED), p,
                                    fuel - 1)
                ELSE delete_case4(t2, v)
       IN case3(See(Log(delete_case2_rotate(t, v), "case3"), "case3", v))

\* As detach_leaf, clearing the left link whichever child u is.
detach_leaf_left_only(t, u) == SetLeft(t, t.parent[u], Nil)

\* The parent's link to u is cleared (lines 383-386, 451-454).
detach_leaf(t, u) ==
  IF is_left_child(t, u) THEN SetLeft(t, t.parent[u], Nil)
  ELSE SetRight(t, t.parent[u], Nil)

\* As replace_by_child, the link that held u cleared and the child left out.
replace_by_child_drops_child(t, u, c) ==
  LET t1 == IF u # t.root
              THEN IF is_left_child(t, u) THEN SetLeft(t, t.parent[u], Nil)
                   ELSE SetRight(t, t.parent[u], Nil)
            ELSE t
      t2 == SetColor(SetParent(t1, c, Nil), c, BLACK)
  IN IF u = t2.root THEN SetRoot(t2, Nil) ELSE t2

\* As replace_by_child, the child keeping u as its parent.
replace_by_child_keeps_parent(t, u, c) ==
  LET t1 == IF u # t.root
              THEN IF is_left_child(t, u) THEN SetLeft(t, t.parent[u], c)
                   ELSE SetRight(t, t.parent[u], c)
            ELSE t
      t2 == SetColor(t1, c, BLACK)
  IN IF u = t2.root THEN SetRoot(t2, c) ELSE t2

\* As replace_by_child, the child keeping its colour.
replace_by_child_keeps_color(t, u, c) ==
  LET t1 == IF u # t.root
              THEN IF is_left_child(t, u) THEN SetLeft(t, t.parent[u], c)
                   ELSE SetRight(t, t.parent[u], c)
            ELSE t
      t2 == SetParent(t1, c, t1.parent[u])
  IN IF u = t2.root THEN SetRoot(t2, c) ELSE t2

\* A BLACK node is replaced by its RED child c (lines 398-422).
replace_by_child(t, u, c) ==
  LET t1 == IF u # t.root
              THEN IF is_left_child(t, u) THEN SetLeft(t, t.parent[u], c)
                   ELSE SetRight(t, t.parent[u], c)
            ELSE t
      t2 == SetColor(SetParent(t1, c, t1.parent[u]), c, BLACK)
  IN IF u = t2.root THEN SetRoot(t2, c) ELSE t2

\* As delete_black_leaf, the root treated like any other node.
delete_black_leaf_no_root_case(t, u) ==
  LET fixed(t1) == detach_leaf(t1, u)
  IN IF sibling(t, u) = Nil THEN Raise(t, "AssertionError")
     ELSE fixed(See(delete_case1(t, u, Fuel), "detach", u))

\* As delete_black_leaf, the link to u cleared before the fix-up runs.
delete_black_leaf_detaches_first(t, u) ==
  LET detached(t1) == delete_case1(t1, u, Fuel)
  IN IF u # t.root
       THEN IF sibling(t, u) = Nil THEN Raise(t, "AssertionError")
            ELSE detached(detach_leaf(See(t, "detach", u), u))
     ELSE SetRoot(t, Nil)

\* A BLACK node without children is removed (lines 432-456).
delete_black_leaf(t, u) ==
  LET fixed(t1) == detach_leaf(t1, u)
  IN IF u # t.root
       THEN IF sibling(t, u) = Nil THEN Raise(t, "AssertionError")
            ELSE fixed(See(delete_case1(t, u, Fuel), "detach", u))
     ELSE SetRoot(t, Nil)

\* The removal of u, which has at most one child (lines 364-458).
delete_remove(t0, u) ==
  LET entered(t) ==
        IF t.err # "ok" THEN t
        ELSE IF t.left[u] # Nil /\ t.right[u] # Nil THEN Raise(t, "AssertionError")
        ELSE IF t.color[u] = RED
          THEN IF t.left[u] # Nil \/ t.right[u] # Nil \/ u = t.root
                 THEN Raise(t, "AssertionError")
               ELSE detach_leaf(Log(t, "red_leaf"), u)
        ELSE IF t.left[u] # Nil /\ t.color[t.left[u]] = RED
          THEN replace_by_child(Log(t, "red_left_child"), u, t.left[u])
        ELSE IF t.right[u] # Nil /\ t.color[t.right[u]] = RED
          THEN replace_by_child(Log(t, "red_right_child"), u, t.right[u])
        ELSE IF t.left[u] = Nil /\ t.right[u] = Nil
          THEN delete_black_leaf(
                 Log(t, IF u # t.root THEN "black_leaf" ELSE "sole_root"), u)
        ELSE Raise(t, "AssertionError")
  IN entered(See(t0, "remove", u))

\* As delete_return, the parent reference kept.
delete_return_keeps_parent(t, u) ==
  IF t.err # "ok" THEN t
  ELSE [t EXCEPT !.n = @ - 1, !.left[u] = Nil, !.right[u] = Nil, !.ret = u]

\* The count is decremented and u is unlinked and returned (lines 460-463).
delete_return(t, u) ==
  IF t.err # "ok" THEN t
  ELSE [t EXCEPT !.n = @ - 1, !.parent[u] = Nil, !.left[u] = Nil,
                 !.right[u] = Nil, !.ret = u]

\* As delete_node, a node with two children taking the key of its successor,
\* which is removed and returned in its place.
delete_node_copies_key(t, u) ==
  IF u = Nil THEN Raise(t, "ValueError")
  ELSE IF t.parent[u] = Nil /\ u # t.root THEN Raise(t, "ValueError")
  ELSE IF t.left[u] # Nil /\ t.right[u] # Nil
    THEN delete_return(
           delete_remove([t EXCEPT !.key[u] = t.key[successor(t, u)]],
                         successor(t, u)),
           successor(t, u))
  ELSE delete_return(delete_remove(t, u), u)

\* delete of a node u (lines 354-463).
delete_node(t, u) ==
  IF u = Nil THEN Raise(t, "ValueError")
  ELSE IF t.parent[u] = Nil /\ u # t.root THEN Raise(t, "ValueError")
  ELSE delete_return(delete_remove(delete_switch(t, u), u), u)

\* As delete_key, the count taken down before the key is looked up.
delete_key_counts_first(t, k) ==
  LET u == search(t, k)
  IN IF u = Nil THEN Raise([t EXCEPT !.n = @ - 1], "LookupError")
     ELSE delete_node(t, u)

\* delete of a key k (lines 346-463).
delete_key(t, k) ==
  LET u == search(t, k)
  IN IF u = Nil THEN Raise(t, "LookupError") ELSE delete_node(t, u)

----------------------------------------------------------------------------
\* Node objects: creation, disposal, names.

\* Depth budget of the walks over a whole tree.
Depth == MaxNodes + 2

\* The nodes of the subtree of x, left to right.
RECURSIVE in_order(_, _, _)
in_order(t, x, d) ==
  IF x = Nil \/ d = 0 THEN <<>>
  ELSE in_order(t, t.left[x], d - 1) \o <<x>> \o in_order(t, t.right[x], d - 1)

Nodes(t) == LET ord == in_order(t, t.root, Depth) IN {ord[i] : i \in 1..Len(ord)}

\* The objects outside `live` (the tree, and the node the caller passes back)
\* are collected: the caller's reference to a node returned earlier is dropped.
collect(t, live) ==
  [t EXCEPT !.key = [y \in Ptr |-> IF y \in live THEN t.key[y] ELSE 0],
            !.color = [y \in Ptr |-> IF y \in live THEN t.color[y] ELSE BLACK],
            !.left = [y \in Ptr |-> IF y \in live THEN t.left[y] ELSE Nil],
            !.right = [y \in Ptr |-> IF y \in live THEN t.right[y] ELSE Nil],
            !.parent = [y \in Ptr |-> IF y \in live THEN t.parent[y] ELSE Nil],
            !.ret = Nil, !.err = "ok", !.log = <<>>, !.obs = <<>>,
            !.frame = [call |-> {}, removal |-> {}]]

\* RBTNode(u, value) (line 149): a new object with key k and no links.
new_node(t, f, k) == [t EXCEPT !.key[f] = k]

\* The object a new node takes: the first one not in use.
fresh(used) == CHOOSE f \in Arena \ used : \A g \in Arena \ used : f <= g

\* insert of a key k (lines 145-177).
insert_key(t, k) ==
  CHOOSE r \in {insert(new_node(t, fresh(used), k), fresh(used)) :
                 used \in {Nodes(t)}} : TRUE

RECURSIVE ascending(_)
ascending(S) ==
  IF S = {} THEN <<>>
  ELSE LET m == CHOOSE x \in S : \A y \in S : x <= y
       IN <<m>> \o ascending(S \ {m})

\* The nodes in the order of their names after an operation: the tree in
\* in-order, then the returned node, then the rest.
name_order(t, ord, inTree) ==
  ord \o (IF t.ret # Nil /\ t.ret \notin inTree THEN <<t.ret>> ELSE <<>>)
      \o ascending(Arena \ (inTree \cup {t.ret}))

\* The new name of every node; the names stay when the links form no tree.
naming(ord, inTree, all) ==
  IF Len(ord) = Cardinality(inTree) /\ Len(all) = Cardinality(Arena)
    THEN [x \in Ptr |-> IF x = Nil THEN Nil ELSE CHOOSE i \in Arena : all[i] = x]
  ELSE [x \in Ptr |-> x]

rename(t, pi, inv) ==
  [t EXCEPT !.key = [y \in Ptr |-> t.key[inv[y]]],
            !.color = [y \in Ptr |-> t.color[inv[y]]],
            !.left = [y \in Ptr |-> pi[t.left[inv[y]]]],
            !.right = [y \in Ptr |-> pi[t.right[inv[y]]]],
            !.parent = [y \in Ptr |-> pi[t.parent[inv[y]]]],
            !.root = pi[t.root],
            !.ret = pi[t.ret]]

\* t with its nodes renamed, and the renaming.
renamed(t) ==
  CHOOSE r \in
    { [t |-> rename(t, pi, [y \in Ptr |-> CHOOSE x \in Ptr : pi[x] = y]), pi |-> pi] :
        pi \in { naming(w.ord, w.inTree, name_order(t, w.ord, w.inTree)) :
                   w \in { [ord |-> ord, inTree |-> {ord[i] : i \in 1..Len(ord)}] :
                             ord \in {in_order(t, t.root, Depth)} } } } : TRUE

----------------------------------------------------------------------------
\* The state machine: a caller applying operations to one RBT object.

Init ==
  /\ root = Nil
  /\ n = 0
  /\ key = [x \in Ptr |-> 0]
  /\ color = [x \in Ptr |-> BLACK]
  /\ left = [x \in Ptr |-> Nil]
  /\ right = [x \in Ptr |-> Nil]
  /\ parent = [x \in Ptr |-> Nil]
  /\ ret = Nil
  /\ err = "ok"
  /\ last = [op |-> "init", k |-> 0, target |-> Nil, succ |-> Nil, log |-> <<>>,
             obs |-> <<>>, frame |-> [call |-> {}, removal |-> {}],
             trip |-> "none"]
  /\ ls = [k \in Keys |-> 0]

\* The state after an operation that took the tree to t0, on the node u (and
\* its successor s), for the key k.  last is the caller's record of the call:
\* trip tells an insert of a key the tree did not hold ("new") from one of a key
\* it held ("dup"), and on a delete of the node search finds for k, made right
\* after insert(k), repeats what that insert was.
Done(op, k, u, s, trip, t0) ==
  \E r \in {renamed(t0)} :
     /\ root' = r.t.root
     /\ n' = r.t.n
     /\ key' = r.t.key
     /\ color' = r.t.color
     /\ left' = r.t.left
     /\ right' = r.t.right
     /\ parent' = r.t.parent
     /\ ret' = r.t.ret
     /\ err' = r.t.err
     /\ last' = [op |-> op, k |-> k, target |-> r.pi[u], succ |-> r.pi[s],
                 log |-> r.t.log, obs |-> r.t.obs, frame |-> r.t.frame,
                 trip |-> trip]

\* Whether insert(k) finds the key in the tree.
Novelty(t, k) == IF search(t, k) = Nil THEN "new" ELSE "dup"

\* Whether a delete of the node u with key k undoes the insert(k) just made.
Undoes(t, k, u) ==
  IF last.op = "insert" /\ last.k = k /\ u # Nil /\ u = search(t, k)
    THEN last.trip ELSE "none"

\* The tree as an operation finds it.
Before(keep) == {collect(Tree, live) : live \in {Nodes(Tree) \cup {keep, Nil}}}

\* rbt.insert(k)
InsertKey(k) ==
  /\ n < MaxNodes
  /\ \E t0 \in Before(Nil) : \E used \in {Nodes(t0)} : \E f \in {fresh(used)} :
     \E t1 \in {insert(new_node(t0, f, k), f)} :
        /\ Done("insert", k, f, Nil, Novelty(t0, k), t1)
        /\ ls' = [ls EXCEPT ![k] = @ + 1]

\* rbt.insert(r) for the node r that the preceding delete returned; the
\* caller's record of the call starts with r as it is passed.
InsertNode ==
  /\ n < MaxNodes
  /\ ret # Nil
  /\ \E t0 \in Before(ret) : \E t1 \in {insert(See(t0, "insert", ret), ret)} :
        /\ Done("insert_node", key[ret], ret, Nil, Novelty(t0, key[ret]), t1)
        /\ ls' = [ls EXCEPT ![key[ret]] = @ + 1]

\* The successor that delete exchanges u with, if it does.
switched(t, u) ==
  IF u # Nil /\ t.left[u] # Nil /\ t.right[u] # Nil THEN successor(t, u) ELSE Nil

\* What the node x is to u in the tree a: u itself, its parent, its child, or
\* another node.
role(a, u, x) ==
  IF x = u THEN "removed"
  ELSE IF x = a.parent[u] THEN "parent"
  ELSE IF x = a.left[u] \/ x = a.right[u] THEN "child"
  ELSE "other"

\* The field f of x; a link between u and its children, or from the parent to
\* u, is a "child_link".
field(a, u, x, f) ==
  IF f \in {"left", "right"} /\ (x = u \/ a[f][x] = u) THEN "child_link" ELSE f

\* The fields that differ between the trees a and b, each with what its node
\* is to u in the tree `at`.
changes(a, b, at, u) ==
  {<<role(at, u, x), "key">> : x \in {y \in Arena : a.key[y] # b.key[y]}}
    \cup {<<role(at, u, x), "color">> : x \in {y \in Arena : a.color[y] # b.color[y]}}
    \cup {<<role(at, u, x), field(at, u, x, "left")>> :
            x \in {y \in Arena : a.left[y] # b.left[y]}}
    \cup {<<role(at, u, x), field(at, u, x, "right")>> :
            x \in {y \in Arena : a.right[y] # b.right[y]}}
    \cup {<<role(at, u, x), "parent">> :
            x \in {y \in Arena : a.parent[y] # b.parent[y]}}
    \cup (IF a.root # b.root THEN {<<"tree", "root">>} ELSE {})

\* The result t1 of a delete of u in t0, with what it changed: since the call,
\* and since the exchange with the successor (a record of the run, not a field
\* of the program).
framed(t0, u, t1) ==
  IF t1.err # "ok" \/ u = Nil THEN t1
  ELSE IF t0.left[u] = Nil \/ t0.right[u] = Nil
    THEN CHOOSE r \in
           {[t1 EXCEPT !.frame = [call |-> c, removal |-> c]] :
              c \in {changes(t0, t1, t0, u)}} : TRUE
  ELSE CHOOSE r \in
         {[t1 EXCEPT !.frame = [call |-> changes(t0, t1, ts, u),
                               removal |-> changes(ts, t1, ts, u)]] :
            ts \in {delete_switch(t0, u)}} : TRUE

\* rbt.delete(k)
DeleteKey(k) ==
  \E t0 \in Before(Nil) : \E u \in {search(t0, k)} : \E t1 \in {delete_key(t0, k)} :
     /\ Done("delete", k, u, switched(t0, u), Undoes(t0, k, u), framed(t0, u, t1))
     /\ ls' = IF t1.err = "ok" THEN [ls EXCEPT ![k] = @ - 1] ELSE ls

\* rbt.delete(u) for a node u of the tree
DeleteNode(u) ==
  \E t0 \in Before(Nil) : \E t1 \in {delete_node(t0, u)} :
     /\ Done("delete_node", key[u], u, switched(t0, u), Undoes(t0, key[u], u),
             framed(t0, u, t1))
     /\ ls' = IF t1.err = "ok" THEN [ls EXCEPT ![key[u]] = @ - 1] ELSE ls

Next ==
  \/ \E k \in Keys : InsertKey(k)
  \/ InsertNode
  \/ \E k \in Keys : DeleteKey(k)
  \/ \E u \in Nodes(Tree) : DeleteNode(u)

Spec == Init /\ [][Next]_vars

\* The calls with an argument the code rejects.  The caller keeps the node r
\* it holds from the preceding delete.
holding(t, r) == [t EXCEPT !.ret = r]

\* rbt.insert(None)
InsertNone ==
  \E t0 \in Before(ret) : \E t1 \in {insert(t0, Nil)} :
     /\ Done("insert_none", 0, Nil, Nil, "none", holding(t1, ret))
     /\ ls' = ls

\* rbt.insert(u) for a node u of the tree that has a parent or a child
InsertLinked(u) ==
  /\ left[u] # Nil \/ right[u] # Nil \/ parent[u] # Nil
  /\ \E t0 \in Before(ret) : \E t1 \in {insert(t0, u)} :
        /\ Done("insert_linked", key[u], u, Nil, "none", holding(t1, ret))
        /\ ls' = ls

\* rbt.delete(None)
DeleteNone ==
  \E t0 \in Before(ret) : \E t1 \in {delete_node(t0, Nil)} :
     /\ Done("delete_none", 0, Nil, Nil, "none", holding(t1, ret))
     /\ ls' = ls

\* rbt.delete(r) for the node r that the preceding delete returned: r has no
\* parent and is not the root
DeleteDetached ==
  /\ ret # Nil
  /\ \E t0 \in Before(ret) : \E t1 \in {delete_node(t0, ret)} :
        /\ Done("delete_detached", key[ret], ret, Nil, "none", holding(t1, ret))
        /\ ls' = ls

\* The valid and the rejected calls together, on trees of up to MaxArgNodes
\* nodes.
NextArgs ==
  \/ n < MaxArgNodes /\ \E k \in Keys : InsertKey(k)
  \/ n < MaxArgNodes /\ InsertNode
  \/ \E k \in Keys : DeleteKey(k)
  \/ \E u \in Nodes(Tree) : DeleteNode(u)
  \/ InsertNone
  \/ \E u \in Nodes(Tree) : InsertLinked(u)
  \/ DeleteNone
  \/ DeleteDetached

SpecArgs == Init /\ [][NextArgs]_vars

----------------------------------------------------------------------------
\* Observations of the tree: the checkers of RBT.py and BST.height, BST.size.

\* bh of assert_prop_5; -1 stands for its failed assertion.
RECURSIVE bh(_, _, _)
bh(t, x, d) ==
  IF x = Nil THEN 1
  ELSE IF d = 0 THEN -1
  ELSE LET left_bh == bh(t, t.left[x], d - 1)
           right_bh == bh(t, t.right[x], d - 1)
       IN IF left_bh = -1 \/ right_bh = -1 \/ left_bh # right_bh THEN -1
          ELSE left_bh + (IF t.color[x] = BLACK THEN 1 ELSE 0)

\* The number of nodes on the longest path from x down to a leaf.
RECURSIVE height(_, _, _)
height(t, x, d) ==
  IF x = Nil \/ d = 0 THEN 0
  ELSE LET l == height(t, t.left[x], d - 1)
           r == height(t, t.right[x], d - 1)
       IN 1 + (IF l >= r THEN l ELSE r)

\* The number of nodes reachable from the root.
size(t) == Len(in_order(t, t.root, Depth))

\* The nodes of the subtree of x.
subtree(t, x) == LET ord == in_order(t, x, Depth) IN {ord[i] : i \in 1..Len(ord)}

RECURSIVE pow2(_)
pow2(e) == IF e <= 0 THEN 1 ELSE 2 * pow2(e - 1)

Took(s) == \E i \in 1..Len(last.log) : last.log[i] = s

Inserted == last.op \in {"insert", "insert_node"}

Deleted == last.op \in {"delete", "delete_node"} /\ err = "ok"

\* What the last operation saw, and what it saw at the place a.
Seen == {last.obs[i] : i \in 1..Len(last.obs)}

At(a) == {o \in Seen : o.at = a}

\* The last operation raised e right after the last of its observations, which
\* it made at one of the places.
FailedAt(e, places) ==
  /\ err = e
  /\ Len(last.obs) > 0
  /\ last.obs[Len(last.obs)].at \in places

\* The places of the deletion fix-up where v has a parent.
Cases == {"case2", "case2_rotated", "case3", "case4", "case5", "case6"}

----------------------------------------------------------------------------
\* C1: after every completed insert or delete, at every node the left and the
\* right black-heights are equal (all paths down to absent children hold the
\* same number of BLACK nodes).
C1_BlackHeight == bh(Tree, root, Depth) # -1

\* A delete whose fix-up recoloured a sibling, climbed and rotated, leaving a
\* tree of black-height 2 or more above the leaves.
C1_Witness ==
  /\ Deleted
  /\ Took("case3_recolor")
  /\ Took("case6")
  /\ bh(Tree, root, Depth) >= 3

\* C2: after every completed insert or delete, no RED node has a RED parent and
\* no RED node has a RED child.
C2_NoRedRed ==
  \A x \in Nodes(Tree) :
    color[x] = RED =>
      /\ parent[x] # Nil => color[parent[x]] = BLACK
      /\ left[x] # Nil => color[left[x]] = BLACK
      /\ right[x] # Nil => color[right[x]] = BLACK

\* An insert that met a RED parent with a RED uncle and then a zig-zag.
C2_Witness ==
  /\ Inserted
  /\ Took("fix_red_uncle")
  /\ Took("fix_left_right") \/ Took("fix_right_left")
  /\ \E x \in Nodes(Tree) : color[x] = RED

\* C3: after every completed insert or delete, the root of a non-empty tree is
\* BLACK.
C3_RootBlack == root # Nil => color[root] = BLACK

\* A delete that replaced the root by its RED child, and an insert into the
\* empty tree, both end with a BLACK root; the first is the witness.
C3_Witness ==
  /\ Deleted
  /\ last.target # Nil
  /\ Took("red_left_child") \/ Took("red_right_child")
  /\ n = 1
  /\ color[root] = BLACK

\* The number of keys the caller has inserted and not yet deleted.
RECURSIVE count_upto(_, _)
count_upto(f, k) == IF k = 0 THEN 0 ELSE f[k] + count_upto(f, k - 1)

----------------------------------------------------------------------------
\* C4 as stated: after every completed insert or delete, at every node x the
\* keys of the left subtree are strictly less than x.key and the keys of the
\* right subtree are greater than or equal to x.key.
C4_StrictlyLessOnTheLeft ==
  \A x \in Nodes(Tree) :
    /\ \A y \in subtree(Tree, left[x]) : key[y] < key[x]
    /\ \A y \in subtree(Tree, right[x]) : key[y] >= key[x]

\* C4 amended: after every completed insert or delete, at every node x the
\* keys of the left subtree are less than or equal to x.key and the keys of the
\* right subtree are greater than or equal to x.key.
C4_Ordered ==
  \A x \in Nodes(Tree) :
    /\ \A y \in subtree(Tree, left[x]) : key[y] <= key[x]
    /\ \A y \in subtree(Tree, right[x]) : key[y] >= key[x]

\* An insert of an equal key whose rotation left an equal key on the left.
C4_Witness ==
  /\ last.op = "insert"
  /\ last.trip = "dup"
  /\ Took("fix_right_right")
  /\ \E x \in Nodes(Tree) : \E y \in subtree(Tree, left[x]) : key[y] = key[x]
  /\ \E x \in Nodes(Tree) : \E y \in subtree(Tree, right[x]) : key[y] > key[x]

\* C5: after every completed insert or delete that leaves n > 0 nodes, the
\* height h (a single node has height 1) satisfies 2^h <= (n+1)^2, which is
\* h <= 2*log2(n+1).
C5_HeightBound ==
  n > 0 => pow2(height(Tree, root, Depth)) <= (n + 1) * (n + 1)

\* A tree of 6 nodes or more, as tall as a red-black tree of its size gets in
\* the model, after an insert that rotated.
C5_Witness ==
  /\ Inserted
  /\ Took("fix_left_left") \/ Took("fix_right_right")
  /\ n >= 6
  /\ height(Tree, root, Depth) >= 4

\* C6: after every completed operation the counter n equals the number of
\* nodes reachable from the root, and both equal the number of inserts made
\* less the number of successful deletes (each insert adds 1 to both, each
\* successful delete takes 1 from both).
C6_Count == n = size(Tree) /\ n = count_upto(ls, MaxKey)

\* A delete that went through successor exchange and fix-up, on a tree that
\* keeps several nodes.
C6_Witness ==
  /\ Deleted
  /\ Took("switch")
  /\ Took("case1")
  /\ n >= 4
  /\ n = size(Tree)

\* C7: the node returned by every successful delete has parent, left and right
\* all absent, whichever deletion branch ran.
C7_Detached ==
  Deleted => ret # Nil /\ parent[ret] = Nil /\ left[ret] = Nil /\ right[ret] = Nil

\* A delete of a node with two children, exchanged with a BLACK successor leaf
\* and removed after a fix-up that rotated.
C7_Witness ==
  /\ Deleted
  /\ Took("switch")
  /\ Took("black_leaf")
  /\ Took("case6")
  /\ ret # Nil
  /\ parent[ret] = Nil

\* C8: delete returns the node that was targeted: delete(key) returns a node
\* with that key, delete(node) returns that node, also after an exchange with
\* the in-order successor, which stays in the tree.
C8_ReturnsTarget ==
  Deleted =>
    /\ ret = last.target
    /\ key[ret] = last.k
    /\ last.succ # Nil => last.succ \in Nodes(Tree) /\ last.succ # ret

\* A delete by key whose target had two children.
C8_Witness ==
  /\ Deleted
  /\ last.op = "delete"
  /\ last.succ # Nil
  /\ last.succ \in Nodes(Tree)
  /\ ret = last.target

\* The node search finds for the key of the last call, if any.
Found == search(Tree, last.k)

\* C9 as stated: after insert(k), search(k) returns a node with key k; after
\* then deleting that node, search(k) returns not-found.
C9_RoundTrip ==
  /\ last.op = "insert" => Found # Nil /\ key[Found] = last.k
  /\ Deleted /\ last.trip # "none" => Found = Nil

\* C9 amended: after insert(k), search(k) returns a node with key k; after then
\* deleting that node, search(k) returns not-found if the tree did not hold k
\* before the insert, and another node with key k if it did.
C9_RoundTripOfNewKey ==
  /\ last.op = "insert" => Found # Nil /\ key[Found] = last.k
  /\ Deleted /\ last.trip = "new" => Found = Nil
  /\ Deleted /\ last.trip = "dup" => Found # Nil /\ key[Found] = last.k /\ Found # ret

\* insert(k) of a key the tree did not hold, then the delete of the node found
\* for k, once the tree has other nodes.
C9_Witness ==
  /\ Deleted
  /\ last.trip = "new"
  /\ n >= 3
  /\ Found = Nil

\* C10: the inserts and the deletes by key of the keys inserted and not yet
\* deleted all succeed (a delete by key fails, with LookupError, only for a key
\* that is not among them), and when every inserted key has been deleted n is
\* 0 and the root is absent.
C10_DeleteAll ==
  /\ last.op = "insert" => err = "ok"
  /\ last.op = "delete" => err = "ok" \/ (err = "LookupError" /\ ls[last.k] = 0)
  /\ (\A k \in Keys : ls[k] = 0) => n = 0 /\ root = Nil

\* The delete by key that empties the tree.
C10_Witness ==
  /\ Deleted
  /\ last.op = "delete"
  /\ \A k \in Keys : ls[k] = 0
  /\ n = 0
  /\ root = Nil

----------------------------------------------------------------------------
\* C11: delete(key) with a key that no node of the tree holds fails with
\* LookupError and leaves the tree unchanged: the same root, the same n, the
\* same key, colour and links at every node.
C11_AbsentKey ==
  [][last'.op = "delete" /\ search(Tree, last'.k) = Nil =>
       /\ err' = "LookupError"
       /\ root' = root
       /\ n' = n
       /\ \A x \in Nodes(Tree) :
            /\ key'[x] = key[x]
            /\ color'[x] = color[x]
            /\ left'[x] = left[x]
            /\ right'[x] = right[x]
            /\ parent'[x] = parent[x]]_vars

\* A delete by key that found no node, in a tree of several nodes of both
\* colours.
C11_Witness ==
  /\ last.op = "delete"
  /\ err = "LookupError"
  /\ search(Tree, last.k) = Nil
  /\ n >= 3
  /\ \E x \in Nodes(Tree) : color[x] = RED

\* The calls of the last four actions.
Rejects == {"insert_none", "insert_linked", "delete_none", "delete_detached"}

\* C12: insert(None), insert of a node that has a parent or a child,
\* delete(None) and delete of a node without a parent that is not the root
\* fail with ValueError and change nothing: the same root, the same n, the
\* same key, colour and links at every node of the tree and at the node passed.
C12_Rejected ==
  [][last'.op \in Rejects =>
       /\ err' = "ValueError"
       /\ root' = root
       /\ n' = n
       /\ ret' = ret
       /\ \A x \in (Nodes(Tree) \cup {ret}) \ {Nil} :
            /\ key'[x] = key[x]
            /\ color'[x] = color[x]
            /\ left'[x] = left[x]
            /\ right'[x] = right[x]
            /\ parent'[x] = parent[x]]_vars

\* A rejected insert of a RED node of the tree that has a parent and a child.
C12_Witness ==
  /\ last.op = "insert_linked"
  /\ err = "ValueError"
  /\ last.target \in Nodes(Tree)
  /\ color[last.target] = RED
  /\ parent[last.target] # Nil
  /\ left[last.target] # Nil

----------------------------------------------------------------------------
\* C13: whenever delete_case2 .. delete_case6 execute on a node v (the removed
\* node or an ancestor reached through case 3), v has a sibling; a BLACK
\* non-root node removed without children has a sibling (the assertion of the
\* black-leaf branch), and no assertion of delete_case5 or delete_case6 fails.
C13_SiblingPresent ==
  /\ \A o \in Seen : o.at \in Cases => o.sibling # "none"
  /\ \A o \in At("remove") :
       o.color = BLACK /\ o.lc = "none" /\ o.rc = "none" /\ ~o.isroot
         => o.sibling # "none"
  /\ ~FailedAt("AssertionError", {"case5", "case6"})
  /\ ~FailedAt("AttributeError", Cases)

\* A delete of a BLACK leaf whose fix-up recoloured the sibling, went up to the
\* parent and went through cases 2 to 6 there.
C13_Witness ==
  /\ Deleted
  /\ Took("black_leaf")
  /\ Took("case3_recolor")
  /\ Took("case5")
  /\ \E i, j \in 1..Len(last.obs) :
       /\ i < j
       /\ last.obs[i].at = "case3"
       /\ last.obs[j].at = "case2"
       /\ last.obs[i].sibling = BLACK
       /\ last.obs[j].sibling = BLACK

\* C14: whenever delete_case6 executes on v, directly or after the rotation of
\* delete_case5, the sibling of v is BLACK and the child of the sibling on the
\* side away from v is present and RED.
C14_Case6 ==
  \A o \in At("case6") : o.sibling = BLACK /\ o.far = RED

\* A delete whose case 5 rotated at the sibling of a right child and whose
\* case 6 then found a BLACK sibling with a RED far child under a RED parent.
C14_Witness ==
  /\ Deleted
  /\ Took("case5_right")
  /\ \E o \in At("case6") :
       o.isright /\ o.sibling = BLACK /\ o.far = RED /\ o.parent = RED

\* delete_case5 reads the colour of the near child of the sibling: the sibling
\* is BLACK, v is a child, and the far child is absent or BLACK.
ReadsNear(o) == o.sibling = BLACK /\ (o.isleft \/ o.isright) /\ o.far # RED

\* C15: delete_case5 is entered only with a BLACK sibling that has a RED child,
\* and whenever it reads the colour of the near child of the sibling
\* (v.sibling.left for a left child v, v.sibling.right for a right child v) that
\* child is present: the read never meets an absent node.
C15_NearChild ==
  /\ \A o \in At("case5") :
       /\ o.sibling = BLACK
       /\ o.near = RED \/ o.far = RED
       /\ ReadsNear(o) => o.near # "none"
  /\ ~FailedAt("AttributeError", {"case5"})

\* A delete whose case 5 read the near child of the sibling of a left child,
\* the far child being absent, found it RED and rotated.
C15_Witness ==
  /\ Deleted
  /\ Took("case5_left")
  /\ \E o \in At("case5") :
       ReadsNear(o) /\ o.isleft /\ o.far = "none" /\ o.near = RED

\* C16: in delete_case2, whenever the sibling of v is RED the parent of v is
\* BLACK, and after the recolouring and the rotation at the parent toward the
\* side of v the new sibling of v is present and BLACK: neither assertion of
\* delete_case2 fails and neither read of the sibling meets an absent node.
C16_Case2 ==
  /\ \A o \in At("case2") : o.sibling = RED => o.parent = BLACK
  /\ \A o \in At("case2_rotated") : o.sibling = BLACK
  /\ ~FailedAt("AssertionError", {"case2", "case2_rotated"})
  /\ ~FailedAt("AttributeError", {"case2", "case2_rotated"})

\* A delete whose case 2 met a RED sibling of a left child under a BLACK
\* parent, and after the rotation a BLACK sibling under the parent, now RED.
C16_Witness ==
  /\ Deleted
  /\ Took("case2_rotate")
  /\ \E o \in At("case2") : o.isleft /\ o.sibling = RED /\ o.parent = BLACK
  /\ \E o \in At("case2_rotated") : o.isleft /\ o.sibling = BLACK /\ o.parent = RED

\* C17: the node a delete removes, after the exchange with the successor and
\* the swap of colours if any, is a RED node without children that is not the
\* root, or a BLACK node without children, or a BLACK node with exactly one
\* child, which is RED; no assertion on the removed node fails and the final
\* `assert False` is not reached.
C17_RemovedNode ==
  /\ \A o \in At("remove") :
       \/ o.color = RED /\ o.lc = "none" /\ o.rc = "none" /\ ~o.isroot
       \/ o.color = BLACK /\ o.lc = "none" /\ o.rc = "none"
       \/ o.color = BLACK /\ o.lc = RED /\ o.rc = "none"
       \/ o.color = BLACK /\ o.lc = "none" /\ o.rc = RED
  /\ last.op \in {"delete", "delete_node"} /\ err # "LookupError"
       => At("remove") # {}
  /\ ~FailedAt("AssertionError", {"remove"})

\* A delete of a node with two children that changed places with its
\* successor and was removed as a BLACK node with one RED child, on the right.
C17_Witness ==
  /\ Deleted
  /\ Took("switch")
  /\ Took("red_right_child")
  /\ \E o \in At("remove") : o.color = BLACK /\ o.lc = "none" /\ o.rc = RED

----------------------------------------------------------------------------
\* The removed node is RED, or BLACK with one child, which is RED.
Lean(o) ==
  \/ o.color = RED
  \/ o.color = BLACK /\ o.lc = RED /\ o.rc = "none"
  \/ o.color = BLACK /\ o.lc = "none" /\ o.rc = RED

\* What the removal of such a node changes: the node loses its links, the link
\* of the parent (or the root) that held it holds its child or nothing, and
\* the child takes its parent and becomes BLACK.
LeanFrame(o) ==
  IF o.color = RED THEN {<<"removed", "parent">>, <<"parent", "child_link">>}
  ELSE {<<"removed", "child_link">>, <<"child", "parent">>, <<"child", "color">>}
         \cup (IF o.isroot THEN {<<"tree", "root">>}
               ELSE {<<"removed", "parent">>, <<"parent", "child_link">>})

\* No part of the deletion fix-up, and so no rotation, ran.
NoFixup == ~Took("case1") /\ \A o \in Seen : o.at \notin Cases

\* C18 as stated: when the node removed is RED, or BLACK with one RED child,
\* delete runs no rotation and no fix-up, and all that differs from the tree
\* before the call is: the links of the removed node, the child link of its
\* parent (or the root), and the parent link and the colour of its child.
C18_FrameSinceCall ==
  \A o \in At("remove") :
    Deleted /\ Lean(o) => NoFixup /\ last.frame.call = LeanFrame(o)

\* C18 amended: when the node removed is RED, or BLACK with one RED child,
\* delete runs no rotation and no fix-up, and all that differs from the tree
\* as it is after the exchange with the successor (the tree before the call
\* when the node has fewer than two children) is: the links of the removed
\* node, the child link of its parent (or the root), and the parent link and
\* the colour of its child.
C18_FrameSinceExchange ==
  \A o \in At("remove") :
    Deleted /\ Lean(o) => NoFixup /\ last.frame.removal = LeanFrame(o)

\* A delete of a node with two children, removed after the exchange as a
\* BLACK node with a RED child: the exchange changed more than the removal.
C18_Witness ==
  /\ Deleted
  /\ Took("switch")
  /\ \E o \in At("remove") :
       /\ o.color = BLACK
       /\ o.rc = RED
       /\ ~o.isroot
       /\ last.frame.removal = LeanFrame(o)
       /\ last.frame.call # last.frame.removal

----------------------------------------------------------------------------
\* The branches of _fix_insertion under a RED parent; the last is `assert
\* False`.
Fixes ==
  {"fix_red_uncle", "fix_left_right", "fix_right_left", "fix_left_left",
   "fix_right_right", "fix_no_shape"}

\* The shape branches whose condition holds.
Shapes(o) ==
  {b \in {"fix_left_right", "fix_right_left", "fix_left_left", "fix_right_right"} :
     \/ b = "fix_left_right" /\ o.pleft /\ o.isright
     \/ b = "fix_right_left" /\ o.pright /\ o.isleft
     \/ b = "fix_left_left" /\ o.pleft /\ o.isleft
     \/ b = "fix_right_right" /\ o.pright /\ o.isright}

\* C19: in _fix_insertion, whenever the parent of u is RED the grandparent of
\* u exists, and when the uncle is BLACK or absent exactly one of the four
\* shape branches applies, the one taken; `assert False` is never reached.
C19_Shapes ==
  /\ \A o \in Seen :
       o.at \in Fixes =>
         /\ o.parent = RED
         /\ o.grandparent # "none"
         /\ o.uncle # RED => Shapes(o) = {o.at}
  /\ At("fix_no_shape") = {}
  /\ Inserted => err = "ok"

\* An insert that recoloured under a RED uncle, went up to the grandparent
\* and there met a RED parent with a BLACK uncle, in a zig-zag.
C19_Witness ==
  /\ Inserted
  /\ Took("fix_red_uncle")
  /\ \E o \in At("fix_right_left") :
       o.parent = RED /\ o.uncle = BLACK /\ o.grandparent = BLACK
  /\ \E o \in At("fix_right_right") : o.uncle = BLACK

----------------------------------------------------------------------------
\* The zig-zag branches, and the zig-zig branch each leads to.
ZigZag == {"fix_left_right", "fix_right_left"}

ZigOf(b) == IF b = "fix_left_right" THEN "fix_left_left" ELSE "fix_right_right"

\* C20: in the zig-zag case, after the rotation at the parent of u the fix-up
\* is invoked on the former parent, a RED child of the RED u on the side of u
\* under a BLACK grandparent; that invocation takes the zig-zig branch of that
\* side and is the last one (no further recursion); it leaves u BLACK at the
\* top of the subtree with the former parent and the former grandparent as
\* its RED children, and the colour invariants hold again.
C20_ZigZag ==
  /\ \A i \in 1..Len(last.log) :
       last.log[i] \in ZigZag =>
         i + 1 = Len(last.log) /\ last.log[i + 1] = ZigOf(last.log[i])
  /\ \A i \in 1..Len(last.obs) :
       last.obs[i].at \in ZigZag =>
         /\ i + 1 = Len(last.obs)
         /\ last.obs[i + 1].at = ZigOf(last.obs[i].at)
         /\ last.obs[i + 1].color = RED
         /\ last.obs[i + 1].parent = RED
         /\ last.obs[i + 1].grandparent = BLACK
         /\ last.obs[i + 1].isleft = last.obs[i].pleft
         /\ last.obs[i + 1].pleft = last.obs[i].pleft
  /\ Inserted /\ (Took("fix_left_right") \/ Took("fix_right_left")) =>
       /\ err = "ok"
       /\ C2_NoRedRed
       /\ C3_RootBlack
       /\ bh(Tree, root, Depth) # -1
  /\ Inserted /\ Len(last.log) = 2 /\ last.log[1] \in ZigZag =>
       /\ color[last.target] = BLACK
       /\ hue(Tree, left[last.target]) = RED
       /\ hue(Tree, right[last.target]) = RED

\* An insert in a zig-zag under a node that has a parent: the two rotations
\* left the inserted node BLACK between its former parent and grandparent.
C20_Witness ==
  /\ Inserted
  /\ last.log = <<"fix_left_right", "fix_left_left">>
  /\ color[last.target] = BLACK
  /\ hue(Tree, left[last.target]) = RED
  /\ hue(Tree, right[last.target]) = RED
  /\ hue(Tree, parent[last.target]) = BLACK
  /\ n >= 5

----------------------------------------------------------------------------
\* The number of entries of the log that are among the labels S.
calls(log, S) == Cardinality({i \in 1..Len(log) : log[i] \in S})

\* One label for every invocation of _fix_insertion that returns.
FixCalls ==
  {"fix_root", "fix_black_parent", "fix_red_uncle", "fix_left_right",
   "fix_right_left", "fix_left_left", "fix_right_right"}

\* The branches of _fix_insertion that invoke it again, and the step of
\* delete_case3 that invokes delete_case1 again.
Again == {"fix_red_uncle", "fix_left_right", "fix_right_left", "case3_recolor"}

\* C21: every insert and every delete terminates; with h the height of the
\* tree the call is made on, an insert makes at most h + 1 invocations of
\* _fix_insertion (the red-uncle steps, two levels each, number at most h / 2)
\* and a delete at most h + 1 invocations of delete_case1; each step that
\* invokes again is followed by the next invocation.
C21_Terminates ==
  [][/\ err' # "RecursionError"
     /\ last'.op \in {"insert", "insert_node"} =>
          /\ calls(last'.log, FixCalls) >= 1
          /\ calls(last'.log, FixCalls) <= height(Tree, root, Depth) + 1
          /\ 2 * calls(last'.log, {"fix_red_uncle"}) <= height(Tree, root, Depth)
     /\ last'.op \in {"delete", "delete_node"} =>
          /\ calls(last'.log, {"case1"}) <= height(Tree, root, Depth) + 1
          /\ calls(last'.log, {"case3_recolor"}) =
               IF Took("case1")' THEN calls(last'.log, {"case1"}) - 1 ELSE 0
     /\ \A i \in 1..Len(last'.log) :
          last'.log[i] \in Again =>
            /\ i < Len(last'.log)
            /\ last'.log[i + 1] \in FixCalls \cup {"case1"}]_vars

\* A delete whose fix-up went up twice, three invocations of delete_case1 in
\* all, in a tree that keeps a height of 3 or more.
C21_Witness ==
  /\ Deleted
  /\ calls(last.log, {"case1"}) = 3
  /\ calls(last.log, {"case3_recolor"}) = 2
  /\ height(Tree, root, Depth) >= 3

----------------------------------------------------------------------------
\* The number of nodes of the subtree of x that hold the key k.
RECURSIVE occurrences(_, _, _, _)
occurrences(t, x, k, d) ==
  IF x = Nil \/ d = 0 THEN 0
  ELSE occurrences(t, t.left[x], k, d - 1) + occurrences(t, t.right[x], k, d - 1)
         + (IF t.key[x] = k THEN 1 ELSE 0)

\* C22: the multiset of the keys of the nodes reachable from the root changes
\* exactly as requested: an insert of k adds one occurrence of k and nothing
\* else, a successful delete of a node with key k removes one occurrence of k
\* and nothing else.
C22_Keys ==
  [][/\ last'.op \in {"insert", "insert_node"} =>
          \A k \in Keys :
            occurrences(Tree, root, k, Depth)' =
              occurrences(Tree, root, k, Depth) + (IF k = last'.k THEN 1 ELSE 0)
     /\ last'.op \in {"delete", "delete_node"} /\ err' = "ok" =>
          \A k \in Keys :
            occurrences(Tree, root, k, Depth)' =
              occurrences(Tree, root, k, Depth) - (IF k = last'.k THEN 1 ELSE 0)]_vars

\* A delete of a node with two children that changed places with its
\* successor and was removed after a fix-up that rotated, in a tree that holds
\* the key of the removed node again and the other key too.
C22_Witness ==
  /\ Deleted
  /\ Took("switch")
  /\ Took("case6")
  /\ occurrences(Tree, root, last.k, Depth) >= 1
  /\ \E k \in Keys : k # last.k /\ occurrences(Tree, root, k, Depth) >= 2

----------------------------------------------------------------------------
\* C23: after every completed insert or delete the links form a well-formed
\* tree: the root has no parent, every present child c of a reachable node x
\* has c.parent = x, no node is reachable by two different paths, every link
\* of a reachable node leads to a reachable node or to nothing, and none
\* leads to the node a delete returned.
C23_WellFormed ==
  \A S \in {Nodes(Tree)} :
    /\ err = "ok" \/ err = "LookupError"
    /\ root # Nil => parent[root] = Nil
    /\ \A x \in S :
         /\ left[x] # Nil => parent[left[x]] = x
         /\ right[x] # Nil => parent[right[x]] = x
         /\ left[x] # Nil => left[x] # right[x]
         /\ {left[x], right[x], parent[x]} \subseteq S \cup {Nil}
    /\ size(Tree) = Cardinality(S)
    /\ ret # Nil =>
         /\ ret \notin S
         /\ \A x \in S : ret \notin {left[x], right[x], parent[x]}

\* A delete that put the RED left child of the removed node in its place,
\* under the parent of that node, in a tree with a node that has a parent and
\* two children.
C23_Witness ==
  /\ Deleted
  /\ Took("red_left_child")
  /\ ret # Nil
  /\ ret \notin Nodes(Tree)
  /\ \E x \in Nodes(Tree) :
       /\ left[x] # Nil /\ right[x] # Nil /\ parent[x] # Nil
       /\ parent[left[x]] = x /\ parent[right[x]] = x

----------------------------------------------------------------------------
\* The removed node as delete finds it: BLACK, without children, not the root.
BlackLeaf(o) == o.color = BLACK /\ o.lc = "none" /\ o.rc = "none" /\ ~o.isroot

\* The node is a child of its parent and has no children.
LinkedLeaf(o) ==
  /\ o.lc = "none" /\ o.rc = "none"
  /\ o.parent # "none"
  /\ o.isleft \/ o.isright

\* C24: when a BLACK leaf u that is not the root is deleted, the deletion
\* fix-up starts at u while u is still a child of its parent, and when it
\* returns u still has no children and is still a child of its parent, so the
\* detachment removes u and no other node: the delete succeeds, returns u and
\* leaves one node less in the tree.
C24_BlackLeaf ==
  last.op \in {"delete", "delete_node"} /\ (\E o \in At("remove") : BlackLeaf(o)) =>
    /\ err = "ok"
    /\ Len(last.obs) >= 3
    /\ last.obs[1].at = "remove"
    /\ last.obs[2].at = "case2" /\ LinkedLeaf(last.obs[2]) /\ last.obs[2].color = BLACK
    /\ last.obs[Len(last.obs)].at = "detach" /\ LinkedLeaf(last.obs[Len(last.obs)])
    /\ Cardinality({i \in 1..Len(last.obs) : last.obs[i].at = "detach"}) = 1
    /\ ret = last.target
    /\ ret \notin Nodes(Tree)
    /\ n = size(Tree)

\* A delete of a BLACK leaf, a left child, whose fix-up rotated at its parent
\* (case 2) and again (case 6): on return the leaf is a left child still.
C24_Witness ==
  /\ Deleted
  /\ Took("black_leaf")
  /\ Took("case2_rotate")
  /\ Took("case6")
  /\ \E o \in At("remove") : BlackLeaf(o) /\ o.isleft
  /\ \E o \in At("detach") : LinkedLeaf(o) /\ o.isleft /\ o.sibling # "none"

----------------------------------------------------------------------------
\* C25: a node returned by delete can be passed back to insert on the same
\* tree: it has no links and is accepted, it is RED when the fix-up starts
\* whatever colour it had when removed (RED at the first branch under a RED
\* parent, RED at the end under a BLACK parent, and BLACK only as the root),
\* it is in the tree afterwards, and the red-black invariants, the order of
\* the keys and the count hold after that insert.
C25_Reinsert ==
  last.op = "insert_node" =>
    /\ err = "ok"
    /\ Len(last.obs) >= 1
    /\ last.obs[1].at = "insert"
    /\ last.obs[1].lc = "none" /\ last.obs[1].rc = "none"
    /\ last.obs[1].parent = "none" /\ ~last.obs[1].isroot
    /\ Len(last.obs) >= 2 => last.obs[2].at \in Fixes /\ last.obs[2].color = RED
    /\ Len(last.log) >= 1
    /\ last.log[1] = "fix_black_parent" => color[last.target] = RED
    /\ last.log[1] = "fix_root" => color[last.target] = BLACK /\ root = last.target
    /\ last.target \in Nodes(Tree)
    /\ key[last.target] = last.k
    /\ C1_BlackHeight
    /\ C2_NoRedRed
    /\ C3_RootBlack
    /\ C4_Ordered
    /\ C6_Count

\* A node removed as a BLACK leaf and passed back to insert: linked under a
\* BLACK parent, it is RED in the tree.
C25_Witness ==
  /\ last.op = "insert_node"
  /\ err = "ok"
  /\ last.obs[1].at = "insert"
  /\ last.obs[1].color = BLACK
  /\ last.log = <<"fix_black_parent">>
  /\ color[last.target] = RED
  /\ parent[last.target] # Nil
  /\ n >= 4

====
